---- MODULE Spec2Model ----
(***************************************************************************)
(* Token / session lifecycle of hydra_auth: generateTokens (issue),        *)
(* RefreshHandler (renew), AuthValidationServer.ValidateToken (verify)     *)
(* and the Redis session store they share.                                 *)
(*                                                                         *)
(* Modelling conventions                                                   *)
(*  - uuid.New() is modelled as a counter: every call yields a value not   *)
(*    returned before (version-4 UUIDs, collisions neglected).             *)
(*  - A signed token is the record of its claims plus the key and the      *)
(*    algorithm it was signed with; only generateJWT produces records      *)
(*    with key = SecretKey and alg = "HS256" (MAC unforgeability).         *)
(*  - Every Redis command is atomic; a command that returns an error has   *)
(*    had no effect on the store.                                          *)
(*  - Time is a tick counter; AccessTTL and SessionTTL are the 15 minute   *)
(*    and 7 day durations scaled so that AccessTTL < SessionTTL.           *)
(***************************************************************************)
EXTENDS Integers, FiniteSets, Sequences, TLC

\* ---- bounds
MaxUuid == 6
MaxTime == 2
NumReq == 2
MaxLogin == 1

\* ---- program constants
AccessTTL == 1
SessionTTL == 2

SecretKey == "SecretKey"
OtherKey == "OtherKey"
SigningMethodHS256 == "HS256"
SigningMethodHMAC == {"HS256", "HS384", "HS512"}

\* A Go int (64 bit, here non-negative) is written hi * 2^31 + lo with
\* 0 <= lo < 2^31, so that every number the model computes fits TLC's integers.
GoInt(h, l) == [hi |-> h, lo |-> l]

\* user ids handed to generateTokens: 42 and 2^31 + 42
Users == {GoInt(0, 42), GoInt(1, 42)}

\* the user id somebody forging a token writes into it
Attacker == GoInt(0, 7)

Procs == 1..NumReq
SidSpace == 1..MaxUuid

\* int32(x) of a Go int: two's complement truncation to the low 32 bits
\* (bit 31 is the lowest bit of hi, and it becomes the sign)
Int32(x) == IF x.hi % 2 = 0 THEN x.lo ELSE x.lo - 2147483647 - 1

\* the int32 r denotes the same number as the Go int x
SameNumber(x, r) == x.hi = 0 /\ x.lo = r

\* redis.Nil: no entry under the key
NoEntry == [rt |-> 0, exp |-> 0]

\* TokensResponse{}
NoTokens == [at |-> [wf |-> FALSE, uid |-> GoInt(0, 0), sid |-> 0, exp |-> 0,
                     key |-> OtherKey, alg |-> "none"],
             rt |-> 0]

\* a string that is not a JWT
Malformed == [wf |-> FALSE, uid |-> GoInt(0, 0), sid |-> 0, exp |-> 0,
              key |-> OtherKey, alg |-> "none"]

\* a renewal credential nobody was issued
WrongRT == 99

VARIABLES
    store,      \* Redis: session id -> [rt, exp], NoEntry when absent
    uuidCtr,    \* number of uuid.New() calls so far
    now,        \* time.Now()
    pairs,      \* token pairs handed to callers so far
    req,        \* the RefreshHandler invocations of the run, in order of arrival
    vres,       \* the ValidateToken call returning now, NoVerify when none is
    lres,       \* the LoginHandler call returning now, NoLogin when none is
    everStored, \* session ids ever written to the store
    renewedOK,  \* (access, renewal) credentials consumed by a 200 renew
    mismatched, \* session ids for which a renew answered "Invalid refresh token"
    nLogin      \* number of LoginHandler calls that reached generateTokens

vars == <<store, uuidCtr, now, pairs, req, vres, lres, everStored, renewedOK,
          mismatched, nLogin>>

\* ------------------------------------------------------------------ store
\* GET key: the value under the key, redis.Nil when there is none
RedisGet(key) == IF key \in DOMAIN store THEN store[key] ELSE NoEntry

\* mutant: a SET also renews the lifetime of the entries already there
RedisSet_Touch(key, value, ttl, ok) ==
    IF ok
    THEN [s \in SidSpace |->
            IF s = key THEN [rt |-> value, exp |-> now + ttl]
            ELSE IF store[s] # NoEntry
            THEN [store[s] EXCEPT !.exp = now + ttl]
            ELSE store[s]]
    ELSE store

\* SET key value EX ttl; ok = FALSE: the command returned an error
RedisSet(key, value, ttl, ok) ==
    IF ok THEN [store EXCEPT ![key] = [rt |-> value, exp |-> now + ttl]]
    ELSE store

\* DEL key; ok = FALSE: the command returned an error
RedisDel(key, ok) ==
    IF ok /\ key \in DOMAIN store THEN [store EXCEPT ![key] = NoEntry]
    ELSE store

\* the store's own expiry: entries whose TTL has run out at time t are gone
Expire(t) ==
    [s \in SidSpace |-> IF store[s] # NoEntry /\ store[s].exp <= t
                        THEN NoEntry ELSE store[s]]

\* ------------------------------------------------------------------ issue
\* mutant: session ids drawn from a space so small that they repeat
NewSessionID_Reused == (uuidCtr % 4) + 1

\* sessionID := uuid.New().String()
NewSessionID == uuidCtr + 1

\* refreshToken := uuid.New().String()
NewRefreshToken == uuidCtr + 2

\* generateJWT: HS256 token over {user_id, session_id, exp = now + 15 min}
generateJWT(userID, sessionID) ==
    [wf |-> TRUE, uid |-> userID, sid |-> sessionID, exp |-> now + AccessTTL,
     key |-> SecretKey, alg |-> SigningMethodHS256]

\* mutant: the pair built before the failed SET is returned with the error
generateTokensReturn_Leak(userID, ok) ==
    [err |-> ~ok,
     tokens |-> [at |-> generateJWT(userID, NewSessionID),
                 rt |-> NewRefreshToken]]

\* what generateTokens returns: (TokensResponse, error)
generateTokensReturn(userID, ok) ==
    IF ok
    THEN [err |-> FALSE,
          tokens |-> [at |-> generateJWT(userID, NewSessionID),
                      rt |-> NewRefreshToken]]
    ELSE [err |-> TRUE, tokens |-> NoTokens]

\* what generateTokens does: two uuids drawn, one SET session:<id> <rt> EX 7d
generateTokens(userID, ok) ==
    /\ uuidCtr + 2 <= MaxUuid
    /\ uuidCtr' = uuidCtr + 2
    /\ store' = RedisSet(NewSessionID, NewRefreshToken, SessionTTL, ok)
    /\ everStored' = IF ok THEN everStored \cup {NewSessionID} ELSE everStored
    /\ pairs' = IF ok THEN pairs \cup {generateTokensReturn(userID, ok).tokens}
                ELSE pairs

\* ------------------------------------------------------------------ login
NoVerify == [tok |-> Malformed, t |-> 0, present |-> FALSE, getOk |-> TRUE,
             resp |-> [valid |-> FALSE, user_id |-> 0, reason |-> "",
                       read |-> FALSE]]

NoLogin == [res |-> "", tokens |-> NoTokens, sid |-> 0]

\* LoginHandler: every way out before generateTokens
\* (bad JSON, unknown email, database error, wrong password)
LoginRejected(outcome) ==
    /\ outcome \in {"BadPayload", "InvalidCredentials", "DatabaseError"}
    /\ lres' = [res |-> outcome, tokens |-> NoTokens, sid |-> 0]
    /\ vres' = NoVerify
    /\ UNCHANGED <<store, uuidCtr, now, pairs, req, everStored, renewedOK,
                   mismatched, nLogin>>

\* LoginHandler with good credentials: generateTokens(user.ID), then 200 with
\* the pair or 500 without
LoginHandler(userID, ok) ==
    /\ nLogin < MaxLogin
    /\ nLogin' = nLogin + 1
    /\ generateTokens(userID, ok)
    /\ lres' = [res |-> IF generateTokensReturn(userID, ok).err
                        THEN "StoreUnavailable" ELSE "OK",
                tokens |-> generateTokensReturn(userID, ok).tokens,
                sid |-> NewSessionID]
    /\ vres' = NoVerify
    /\ UNCHANGED <<now, req, renewedOK, mismatched>>

\* ----------------------------------------------------------------- verify
\* mutant: the expiry claim is not validated
ParseWithClaims_NoExpiry(tok) ==
    IF ~tok.wf THEN "token is malformed"
    ELSE IF tok.alg \notin SigningMethodHMAC THEN "unexpected signing method"
    ELSE IF tok.key # SecretKey THEN "signature is invalid"
    ELSE ""

\* mutant: the signature is not verified (claims parsed as in ParseUnverified)
ParseWithClaims_NoSignature(tok) ==
    IF ~tok.wf THEN "token is malformed"
    ELSE IF tok.alg \notin SigningMethodHMAC THEN "unexpected signing method"
    ELSE IF ~(now < tok.exp) THEN "token is expired"
    ELSE ""

\* jwt.ParseWithClaims with the key function of ValidateToken: the error it
\* returns, "" when the token is valid
ParseWithClaims(tok) ==
    IF ~tok.wf THEN "token is malformed"
    ELSE IF tok.alg \notin SigningMethodHMAC THEN "unexpected signing method"
    ELSE IF tok.key # SecretKey THEN "signature is invalid"
    ELSE IF ~(now < tok.exp) THEN "token is expired"
    ELSE ""

\* mutant: every error of the lookup is taken for redis.Nil
ValidateTokenResponse_ErrAsNil(tok, getOk) ==
    IF ParseWithClaims(tok) # ""
    THEN [valid |-> FALSE, user_id |-> 0, reason |-> "invalid_or_expired",
          read |-> FALSE]
    ELSE IF ~getOk \/ RedisGet(tok.sid) = NoEntry
    THEN [valid |-> FALSE, user_id |-> 0,
          reason |-> "session_revoked_or_inactive", read |-> TRUE]
    ELSE [valid |-> TRUE, user_id |-> Int32(tok.uid), reason |-> "",
          read |-> TRUE]

\* the ValidateTokenResponse; read = the handler issued GET session:<id>
ValidateTokenResponse(tok, getOk) ==
    IF ParseWithClaims(tok) # ""
    THEN [valid |-> FALSE, user_id |-> 0, reason |-> "invalid_or_expired",
          read |-> FALSE]
    ELSE IF getOk /\ RedisGet(tok.sid) = NoEntry
    THEN [valid |-> FALSE, user_id |-> 0,
          reason |-> "session_revoked_or_inactive", read |-> TRUE]
    ELSE IF ~getOk
    THEN [valid |-> FALSE, user_id |-> 0, reason |-> "internal_error",
          read |-> TRUE]
    ELSE [valid |-> TRUE, user_id |-> Int32(tok.uid), reason |-> "",
          read |-> TRUE]

\* mutant: ValidateToken drops the entry of a session whose token has expired
ValidateTokenStore_Cleanup(tok, getOk) ==
    IF tok.wf /\ tok.exp <= now THEN RedisDel(tok.sid, TRUE) ELSE store

\* the store as ValidateToken leaves it
ValidateTokenStore(tok, getOk) == store

\* tokens somebody without the secret can build: any claims, but never
\* (SecretKey, HS256)
Forged(sids, algs) ==
    [wf : {TRUE}, uid : {Attacker}, sid : sids, exp : {MaxTime + 1},
     key : {OtherKey}, alg : algs]

IssuedATs == {p.at : p \in pairs}

LiveSids == {s \in SidSpace : store[s] # NoEntry}

VerifyInputs ==
    IssuedATs \cup Forged(LiveSids, {SigningMethodHS256, "none"})
    \cup {Malformed}

ValidateToken(tok, getOk) ==
    /\ vres' = [tok |-> tok, t |-> now, present |-> RedisGet(tok.sid) # NoEntry,
                getOk |-> getOk, resp |-> ValidateTokenResponse(tok, getOk)]
    /\ store' = ValidateTokenStore(tok, getOk)
    /\ lres' = NoLogin
    /\ UNCHANGED <<uuidCtr, now, pairs, req, everStored, renewedOK,
                   mismatched, nLogin>>

\* ------------------------------------------------------------------ renew
\* a RefreshHandler invocation: its position (pc), its inputs (at, rt), its
\* answer (res, tokens), and what was the case when it looked the session up:
\*   before   the entry under the session id the token names
\*   live     that entry held the submitted renewal credential
\*   late     the access token's validity window had elapsed
\*   conc     another invocation with the same inputs was under way
\*   replay   a renew had answered 200 for the same (access, renewal) pair
\*   spent    a renew had answered 200 for the same renewal credential
\*   afterMis a renew had answered RenewalMismatch for the same session
\* read: the handler issued GET; err: one of its store commands failed
IdleReq == [pc |-> "idle", at |-> Malformed, rt |-> 0, res |-> "",
            tokens |-> NoTokens, before |-> NoEntry, live |-> FALSE,
            late |-> FALSE, conc |-> FALSE, replay |-> FALSE,
            spent |-> FALSE, afterMis |-> FALSE, read |-> FALSE,
            err |-> FALSE]

InFlight(q) == req[q].pc \in {"revoke", "consume", "issue"}

\* mutant: the parse checks the validity window as ParseWithClaims does
ParseUnverified_Validating(tok) ==
    IF tok.wf /\ now < tok.exp
    THEN [err |-> FALSE, UserID |-> tok.uid, SessionID |-> tok.sid]
    ELSE [err |-> TRUE, UserID |-> GoInt(0, 0), SessionID |-> 0]

\* jwt.NewParser().ParseUnverified: claims of any well-formed token, whatever
\* its signature and expiry
ParseUnverified(tok) ==
    IF tok.wf THEN [err |-> FALSE, UserID |-> tok.uid, SessionID |-> tok.sid]
    ELSE [err |-> TRUE, UserID |-> GoInt(0, 0), SessionID |-> 0]

Done(r, result, tokens) == [r EXCEPT !.pc = "done", !.res = result,
                                     !.tokens = tokens]

\* RefreshHandler, request rejected before the token is looked at
\* (body is not JSON, no "Bearer " header)
RefreshRejected(p, outcome) ==
    /\ req[p].pc = "idle"
    /\ \A q \in Procs : q < p => req[q].pc # "idle"
    /\ outcome \in {"BadPayload", "NoBearer"}
    /\ req' = [req EXCEPT ![p] = Done(IdleReq, outcome, NoTokens)]
    /\ vres' = NoVerify /\ lres' = NoLogin
    /\ UNCHANGED <<store, uuidCtr, now, pairs, everStored, renewedOK,
                   mismatched, nLogin>>

\* a session id that generateTokens never drew
UnknownSid == MaxUuid + 1

RenewATs == IssuedATs \cup Forged(LiveSids \cup {0, UnknownSid}, {"none"})
            \cup {Malformed}

\* the renewal credential issued with the session the token names, one that
\* a renew has consumed already, or one that nobody was issued
RenewRTs(at) ==
    {p.rt : p \in {q \in pairs : q.at.sid = at.sid}}
    \cup {r.rt : r \in renewedOK} \cup {WrongRT}

\* mutant: a token without a session id is not turned away
RejectsClaims_NoSessionCheck(c) == c.err

\* the claims RefreshHandler turns away before it goes to the store:
\* ParseUnverified failed, or claims.SessionID == ""
RejectsClaims(c) == c.err \/ c.SessionID = 0

\* mutant: the comparison accepts every submitted credential
Compare_Always(storedRT, submitted) == TRUE

\* the outcome of the comparison of the stored with the submitted credential
Compare(storedRT, submitted) == storedRT = submitted

\* RefreshHandler from its entry to the comparison: unverified parse, session
\* id check, storedRT, err := RedisClient.Get(...), storedRT != req.RefreshToken.
\* The steps before the Get touch no shared state, so they are one step with it.
RefreshStart(p, at, rt, ok) ==
    /\ req[p].pc = "idle"
    /\ \A q \in Procs : q < p => req[q].pc # "idle"
    /\ LET c == ParseUnverified(at)
           e == RedisGet(c.SessionID)
           held == RedisGet(at.sid)
           r == [IdleReq EXCEPT
                   !.at = at, !.rt = rt, !.before = held,
                   !.live = (held # NoEntry /\ held.rt = rt),
                   !.late = (at.wf /\ at.exp <= now),
                   !.spent = (rt \in {x.rt : x \in renewedOK}),
                   !.conc = \E q \in Procs \ {p} :
                              InFlight(q) /\ req[q].at = at /\ req[q].rt = rt,
                   !.replay = ([at |-> at, rt |-> rt] \in renewedOK),
                   !.afterMis = (at.sid \in mismatched)]
       IN  req' = [req EXCEPT ![p] =
                     IF RejectsClaims(c)
                     THEN Done(r, "MalformedCredential", NoTokens)
                     ELSE IF ~ok
                     THEN Done([r EXCEPT !.read = TRUE, !.err = TRUE],
                               "InternalError", NoTokens)
                     ELSE IF e = NoEntry
                     THEN Done([r EXCEPT !.read = TRUE], "SessionInactive",
                               NoTokens)
                     ELSE IF ~Compare(e.rt, rt)
                     THEN [r EXCEPT !.read = TRUE, !.pc = "revoke"]
                     ELSE [r EXCEPT !.read = TRUE, !.pc = "consume"]]
    /\ vres' = NoVerify /\ lres' = NoLogin
    /\ UNCHANGED <<store, uuidCtr, now, pairs, everStored, renewedOK,
                   mismatched, nLogin>>

\* mismatch: RedisClient.Del (result not looked at), 401 Invalid refresh token
RefreshRevoke(p, ok) ==
    /\ req[p].pc = "revoke"
    /\ store' = RedisDel(req[p].at.sid, ok)
    /\ req' = [req EXCEPT ![p] =
                 Done([req[p] EXCEPT !.err = (req[p].err \/ ~ok)],
                      "RenewalMismatch", NoTokens)]
    /\ mismatched' = mismatched \cup {req[p].at.sid}
    /\ vres' = NoVerify /\ lres' = NoLogin
    /\ UNCHANGED <<uuidCtr, now, pairs, everStored, renewedOK, nLogin>>

\* mutant: the matched branch goes on to generateTokens without the Del
RefreshConsume_NoDelete(p, ok) ==
    /\ req[p].pc = "consume"
    /\ store' = store
    /\ req' = [req EXCEPT ![p] = [req[p] EXCEPT !.pc = "issue",
                                                !.err = (req[p].err \/ ~ok)]]
    /\ vres' = NoVerify /\ lres' = NoLogin
    /\ UNCHANGED <<uuidCtr, now, pairs, everStored, renewedOK, mismatched, nLogin>>

\* match: RedisClient.Del of the old entry (result not looked at)
RefreshConsume(p, ok) ==
    /\ req[p].pc = "consume"
    /\ store' = RedisDel(req[p].at.sid, ok)
    /\ req' = [req EXCEPT ![p] = [req[p] EXCEPT !.pc = "issue",
                                                !.err = (req[p].err \/ ~ok)]]
    /\ vres' = NoVerify /\ lres' = NoLogin
    /\ UNCHANGED <<uuidCtr, now, pairs, everStored, renewedOK, mismatched, nLogin>>

\* generateTokens(claims.UserID), then 200 with the pair or 500 without
RefreshIssue(p, ok) ==
    /\ req[p].pc = "issue"
    /\ generateTokens(req[p].at.uid, ok)
    /\ LET g == generateTokensReturn(req[p].at.uid, ok)
       IN  /\ req' = [req EXCEPT ![p] =
                        IF g.err
                        THEN Done([req[p] EXCEPT !.err = TRUE],
                                  "StoreUnavailable", NoTokens)
                        ELSE Done(req[p], "OK", g.tokens)]
           /\ renewedOK' = IF g.err THEN renewedOK
                           ELSE renewedOK \cup
                                {[at |-> req[p].at, rt |-> req[p].rt]}
    /\ vres' = NoVerify /\ lres' = NoLogin
    /\ UNCHANGED <<now, mismatched, nLogin>>

\* ------------------------------------------------------------------- time
Tick ==
    /\ now < MaxTime
    /\ now' = now + 1
    /\ store' = Expire(now + 1)
    /\ vres' = NoVerify /\ lres' = NoLogin
    /\ UNCHANGED <<uuidCtr, pairs, req, everStored, renewedOK, mismatched, nLogin>>

\* ------------------------------------------------------------------ system
Init ==
    /\ store = [s \in SidSpace |-> NoEntry]
    /\ uuidCtr = 0
    /\ now = 0
    /\ pairs = {}
    /\ req = [p \in Procs |-> IdleReq]
    /\ vres = NoVerify
    /\ lres = NoLogin
    /\ everStored = {}
    /\ renewedOK = {}
    /\ mismatched = {}
    /\ nLogin = 0

\* generateJWT of the first phase (one argument): the same signed token
\* without a session id claim
generateJWTPhase1(userID) ==
    [wf |-> TRUE, uid |-> userID, sid |-> 0, exp |-> now + AccessTTL,
     key |-> SecretKey, alg |-> SigningMethodHS256]

\* LoginHandler of src/auth/handlers.go, the handler of the first phase that
\* the repository still holds next to the one above: after the password check
\* it answers 200 with TokenResponse{Token: generateJWT(user.ID)}; it draws no
\* session id, returns no renewal credential and sends nothing to the store.
LoginHandlerPhase1(userID) ==
    /\ nLogin < MaxLogin
    /\ nLogin' = nLogin + 1
    /\ lres' = [res |-> "OK",
                tokens |-> [at |-> generateJWTPhase1(userID), rt |-> 0],
                sid |-> 0]
    /\ vres' = NoVerify
    /\ UNCHANGED <<store, uuidCtr, now, pairs, req, everStored, renewedOK,
                   mismatched>>

Login ==
    \/ \E o \in {"BadPayload", "InvalidCredentials", "DatabaseError"} :
          LoginRejected(o)
    \/ \E u \in Users, ok \in BOOLEAN : LoginHandler(u, ok)
    \/ \E u \in Users : LoginHandlerPhase1(u)

Verify == \E tok \in VerifyInputs, ok \in BOOLEAN : ValidateToken(tok, ok)

Renew ==
    \E p \in Procs :
       \/ \E o \in {"BadPayload", "NoBearer"} : RefreshRejected(p, o)
       \/ \E at \in RenewATs : \E rt \in RenewRTs(at) : \E ok \in BOOLEAN :
             RefreshStart(p, at, rt, ok)
       \/ \E ok \in BOOLEAN : RefreshRevoke(p, ok)
       \/ \E ok \in BOOLEAN : RefreshConsume(p, ok)
       \/ \E ok \in BOOLEAN : RefreshIssue(p, ok)

Next == Login \/ Verify \/ Renew \/ Tick

Spec == Init /\ [][Next]_vars

\* ValidateToken seen from the handler's side of jwt.ParseWithClaims. The
\* call returns (token, err); the handler tests err != nil || !token.Valid.
\* A parser result is [err, valid], err = "" standing for nil.

\* the handler did not return: a run-time panic in the gRPC goroutine
Panic == [panic |-> "invalid memory address or nil pointer dereference"]

\* what the parser may hand back for a token: the library's verdict as an
\* error, or, for a token it does not accept, a nil error with
\* token.Valid = false (the second operand of the handler's test)
ParserResults(tok) ==
    {[err |-> ParseWithClaims(tok), valid |-> ParseWithClaims(tok) = ""]}
    \cup (IF ParseWithClaims(tok) # "" THEN {[err |-> "", valid |-> FALSE]}
          ELSE {})

\* the body of the branch: "Token is invalid or expired: " + err.Error();
\* err.Error() on a nil error is a nil pointer dereference
StatelessFailure(err) ==
    IF err = "" THEN Panic
    ELSE [valid |-> FALSE, user_id |-> 0, reason |-> "invalid_or_expired",
          read |-> FALSE]

\* ValidateToken from the test of the parser's result to its return
ValidateTokenParsedResponse(tok, pr, getOk) ==
    IF pr.err # "" \/ ~pr.valid THEN StatelessFailure(pr.err)
    ELSE IF getOk /\ RedisGet(tok.sid) = NoEntry
    THEN [valid |-> FALSE, user_id |-> 0,
          reason |-> "session_revoked_or_inactive", read |-> TRUE]
    ELSE IF ~getOk
    THEN [valid |-> FALSE, user_id |-> 0, reason |-> "internal_error",
          read |-> TRUE]
    ELSE [valid |-> TRUE, user_id |-> Int32(tok.uid), reason |-> "",
          read |-> TRUE]

ValidateTokenParsed(tok, pr, getOk) ==
    /\ vres' = [tok |-> tok, t |-> now, present |-> RedisGet(tok.sid) # NoEntry,
                getOk |-> getOk,
                resp |-> ValidateTokenParsedResponse(tok, pr, getOk)]
    /\ store' = ValidateTokenStore(tok, getOk)
    /\ lres' = NoLogin
    /\ UNCHANGED <<uuidCtr, now, pairs, req, everStored, renewedOK,
                   mismatched, nLogin>>

VerifyParsed ==
    \E tok \in VerifyInputs, ok \in BOOLEAN :
       \E pr \in ParserResults(tok) : ValidateTokenParsed(tok, pr, ok)

NextParsed == Login \/ VerifyParsed \/ Renew \/ Tick

SpecParsed == Init /\ [][NextParsed]_vars

\* ================================================================= claims
IsDone(p) == req[p].pc = "done"

\* the verify in vres got past the stateless phase (well formed, HMAC method,
\* signed with the service's secret, not expired when it was checked)
StatelessOK(v) ==
    /\ v.tok.wf
    /\ v.tok.alg \in SigningMethodHMAC
    /\ v.tok.key = SecretKey
    /\ v.t < v.tok.exp

\* C1: of the concurrent renew requests that present the same (access, renewal)
\* pair, valid for a live session when the first of them arrived, exactly one
\* answers with a fresh pair and every other one fails with SessionInactive
\* (requests that met a store error set aside).
C1_ExactlyOneRenewal ==
    \A p, q \in Procs :
        ( /\ p < q /\ IsDone(p) /\ IsDone(q)
          /\ req[p].live /\ req[q].conc
          /\ req[q].at = req[p].at /\ req[q].rt = req[p].rt
          /\ ~req[p].err /\ ~req[q].err )
        => {req[p].res, req[q].res} = {"OK", "SessionInactive"}

\* C2: a renew that arrives after a renew has answered 200 for the same access
\* and renewal credential is rejected with SessionInactive and gets no pair
\* (a replay that itself met a store error set aside).
C2_ReplayRejected ==
    \A p \in Procs :
        (IsDone(p) /\ req[p].replay /\ ~req[p].err)
        => (req[p].res = "SessionInactive" /\ req[p].tokens = NoTokens)

\* C3: a renew answered with RenewalMismatch returns no pair and leaves no
\* entry for the session its access credential names, and a renew that arrives
\* after such an answer for the same session fails with SessionInactive
\* (a later renew that itself met a store error set aside).
C3_MismatchRevokes ==
    \A p \in Procs :
        IsDone(p) =>
          /\ req[p].res = "RenewalMismatch"
               => (req[p].tokens = NoTokens
                   /\ RedisGet(req[p].at.sid) = NoEntry)
          /\ (req[p].afterMis /\ ~req[p].err)
               => req[p].res = "SessionInactive"

\* C4: a verify of an issued access credential, inside its validity window,
\* with its session's entry present and the store answering, returns
\* valid = true and the user id the credential was issued for.
C4_IssueThenVerify ==
    ( /\ vres.tok \in IssuedATs
      /\ vres.t < vres.tok.exp
      /\ vres.present /\ vres.getOk )
    => (vres.resp.valid /\ SameNumber(vres.tok.uid, vres.resp.user_id))

\* C5: a verify of a credential whose validity window has elapsed returns
\* valid = false, reason invalid_or_expired, and has not read the store,
\* whatever the store holds and whether or not it answers.
C5_ExpiredRejected ==
    (vres.tok.wf /\ vres.tok.exp <= vres.t)
    => ( /\ ~vres.resp.valid
         /\ vres.resp.reason = "invalid_or_expired"
         /\ ~vres.resp.read )

C5_Witness ==
    /\ vres.tok \in IssuedATs
    /\ vres.tok.exp <= vres.t
    /\ vres.present
    /\ vres.resp.reason = "invalid_or_expired"

\* C6: a verify of a credential signed with another secret, or with a method
\* that is not HMAC, returns valid = false with reason invalid_or_expired, also
\* when the session it names is live.
C6_ForeignSignatureRejected ==
    (vres.tok.wf /\ (vres.tok.key # SecretKey
                     \/ vres.tok.alg \notin SigningMethodHMAC))
    => (~vres.resp.valid /\ vres.resp.reason = "invalid_or_expired")

C6_Witness ==
    /\ vres.tok.wf
    /\ vres.tok.key # SecretKey
    /\ vres.tok.alg \in SigningMethodHMAC
    /\ vres.present
    /\ vres.resp.reason = "invalid_or_expired"

\* C7: for a credential that passes the stateless phase, valid = true only if
\* the lookup succeeded and found the entry; an absent entry gives reason
\* session_revoked_or_inactive; a failed lookup gives valid = false with
\* reason internal_error.
C7_StatefulPhase ==
    StatelessOK(vres) =>
      /\ vres.resp.valid => (vres.getOk /\ vres.present)
      /\ (vres.getOk /\ ~vres.present)
           => (~vres.resp.valid
               /\ vres.resp.reason = "session_revoked_or_inactive")
      /\ ~vres.getOk
           => (~vres.resp.valid /\ vres.resp.reason = "internal_error")

C7_Witness ==
    /\ StatelessOK(vres)
    /\ ~vres.getOk
    /\ ~vres.present
    /\ vres.resp.reason = "internal_error"

\* C8: a ValidateToken step leaves the session store as it was: the same
\* entries, with the same values and the same expiry.
C8_VerifyReadOnly == [][Verify => store' = store]_vars

C8_Witness ==
    /\ vres.resp.valid
    /\ vres.present
    /\ \E s \in SidSpace : store[s] # NoEntry

\* C9: a session id whose entry has been written and is gone (expired, rotated
\* away or revoked) never has an entry again; every write is under a session
\* id never written before.
C9_TerminatedAbsorbing ==
    [][\A s \in SidSpace :
          /\ (s \in everStored /\ store[s] = NoEntry) => store'[s] = NoEntry
          /\ (store[s] = NoEntry /\ store'[s] # NoEntry) => s \notin everStored
      ]_vars

C9_Witness ==
    \E s, t \in SidSpace :
        /\ s \in everStored /\ store[s] = NoEntry
        /\ s < t /\ store[t] # NoEntry
        /\ \E p \in Procs : req[p].res = "OK" /\ req[p].at.sid = s

\* C10: when the store write inside issue fails, the caller gets an error and
\* no credential, and there is no entry under the generated session id.
C10_IssueFailsClosed ==
    /\ lres.res = "StoreUnavailable"
         => ( /\ lres.tokens = NoTokens
              /\ RedisGet(lres.sid) = NoEntry
              /\ \A pr \in pairs : pr.at.sid # lres.sid )
    /\ \A p \in Procs :
         req[p].res = "StoreUnavailable" => req[p].tokens = NoTokens

C10_Witness ==
    /\ lres.res = "StoreUnavailable"
    /\ lres.sid \in SidSpace
    /\ uuidCtr >= lres.sid + 1

\* C11: a renew in which a store command failed (the read, the delete of the
\* old entry or the write of the new one) answers with a failure and returns
\* no pair.
C11_RenewFailsClosed ==
    \A p \in Procs :
        (IsDone(p) /\ req[p].err)
        => (req[p].res # "OK" /\ req[p].tokens = NoTokens)


\* C12: once a renew has answered 200, a renew that presents the renewal
\* credential it consumed returns no pair, whichever access credential comes
\* with it (a later renew that itself met a store error set aside); and a
\* verify of the access credential of the consumed session, inside its
\* validity window, with the entry gone and the store answering, returns
\* valid = false with reason session_revoked_or_inactive.
C12_ConsumedCredentialDead ==
    /\ \A p \in Procs :
          (IsDone(p) /\ req[p].spent /\ ~req[p].err)
          => (req[p].res # "OK" /\ req[p].tokens = NoTokens)
    /\ ( /\ \E r \in renewedOK : r.at = vres.tok
         /\ StatelessOK(vres) /\ ~vres.present /\ vres.getOk )
       => ( ~vres.resp.valid
            /\ vres.resp.reason = "session_revoked_or_inactive" )

\* C13: a renew answered with an infrastructure error (InternalError on the
\* read, StoreUnavailable on the write of the new entry) leaves the entry of
\* the session its access credential names as it found it: while no other
\* renew works on that session and the entry's lifetime has not run out, the
\* store still holds the entry the failed renew read.
C13_InfraErrorKeepsSession ==
    \A p \in Procs :
        ( /\ IsDone(p)
          /\ req[p].res \in {"InternalError", "StoreUnavailable"}
          /\ req[p].before # NoEntry
          /\ now < req[p].before.exp
          /\ \A q \in Procs \ {p} :
                req[q].pc = "idle" \/ req[q].at.sid # req[p].at.sid )
        => RedisGet(req[p].at.sid) = req[p].before

\* the users for whom the session a token names was issued
OwnersOf(sid) == {q.at.uid : q \in {x \in pairs : x.at.sid = sid}}

\* C14: the pair a successful renew returns is owned by the user for whom the
\* consumed session was issued, whatever access credential was presented.
C14_RenewKeepsOwner ==
    \A p \in Procs :
        (IsDone(p) /\ req[p].res = "OK")
        => req[p].tokens.at.uid \in OwnersOf(req[p].at.sid)

\* C15: a renew returns a pair only when the renewal credential it submitted
\* equals the one the store held under the session id of the presented access
\* credential when it was read, also for an access credential that nobody
\* issued; without such a match it fails and returns no pair.
C15_PairOnlyOnMatch ==
    \A p \in Procs :
        IsDone(p) =>
          /\ req[p].res = "OK" => req[p].live
          /\ ~req[p].live => (req[p].res # "OK" /\ req[p].tokens = NoTokens)

\* two renews with forged access credentials: one named a live session and
\* brought its renewal credential, the other named a live session without it
C15_Witness ==
    \E p, q \in Procs :
        /\ IsDone(p) /\ req[p].at.key = OtherKey /\ req[p].live
        /\ req[p].res = "OK"
        /\ IsDone(q) /\ req[q].at.key = OtherKey /\ ~req[q].live
        /\ req[q].before # NoEntry /\ req[q].res = "RenewalMismatch"

\* C16: in a renew whose comparison matched and whose store commands all
\* succeeded, the entry of the consumed session is gone before the new entry
\* is written: between the delete and the write the old entry is absent, and
\* after the answer the old and the new entry are never both present.
C16_DeleteBeforeWrite ==
    \A p \in Procs :
        ~req[p].err =>
          /\ req[p].pc = "issue" => RedisGet(req[p].at.sid) = NoEntry
          /\ (IsDone(p) /\ req[p].res = "OK")
               => ~( RedisGet(req[p].at.sid) # NoEntry
                     /\ RedisGet(req[p].tokens.at.sid) # NoEntry )

\* a renew with a working store has answered 200: the session it read is gone
\* and the one it minted is in the store
C16_Witness ==
    \E p \in Procs :
        /\ IsDone(p) /\ req[p].res = "OK" /\ ~req[p].err
        /\ req[p].before # NoEntry
        /\ RedisGet(req[p].at.sid) = NoEntry
        /\ RedisGet(req[p].tokens.at.sid) # NoEntry

\* C17: a successful issue adds exactly one entry, under a key that had none,
\* and changes no other key; and no step changes the renewal credential or
\* the expiry of an entry that is there before and after the step.
C17_IssueAddsOneEntry ==
    [][ /\ pairs' # pairs
           => \E s \in SidSpace :
                 /\ store[s] = NoEntry /\ store'[s] # NoEntry
                 /\ \A t \in SidSpace \ {s} : store'[t] = store[t]
        /\ \A s \in SidSpace :
              (store[s] # NoEntry /\ store'[s] # NoEntry)
              => store'[s] = store[s]
      ]_vars

\* an issue has written an entry while an older one was in the store
C17_Witness ==
    \E s, t \in SidSpace :
        /\ store[s] # NoEntry /\ store[t] # NoEntry
        /\ store[s].exp < store[t].exp

\* C18: a renew whose access credential does not parse, or parses to an empty
\* session id, is answered MalformedCredential in the step in which it
\* arrives: it has issued no GET, the store is as it was and no pair is
\* returned.
C18_MalformedBeforeStore ==
    [][ \A p \in Procs :
          ( /\ req[p].pc = "idle" /\ req'[p].pc # "idle"
            /\ req'[p].res \notin {"BadPayload", "NoBearer"}
            /\ (~req'[p].at.wf \/ req'[p].at.sid = 0) )
          => ( /\ IsDone(p)' /\ req'[p].res = "MalformedCredential"
               /\ ~req'[p].read /\ req'[p].tokens = NoTokens
               /\ store' = store )
      ]_vars

\* one renew came with a token that does not parse, another with a token
\* without session id, while a session was in the store
C18_Witness ==
    \E p, q \in Procs :
        /\ IsDone(p) /\ ~req[p].at.wf /\ req[p].res = "MalformedCredential"
        /\ IsDone(q) /\ req[q].at.wf /\ req[q].at.sid = 0
        /\ req[q].res = "MalformedCredential"
        /\ LiveSids # {}

\* C19: a renew that found the session's entry holding the submitted renewal
\* credential, and met no store error, succeeds and returns a pair, both when
\* the access credential was inside its validity window and when the window
\* had elapsed.
C19_RenewIgnoresExpiry ==
    \A p \in Procs :
        (IsDone(p) /\ req[p].live /\ ~req[p].err)
        => (req[p].res = "OK" /\ req[p].tokens # NoTokens)

\* two successful renews: one presented an access credential inside its
\* window, the other one whose window had elapsed
C19_Witness ==
    \E p, q \in Procs :
        /\ IsDone(p) /\ req[p].live /\ ~req[p].err /\ ~req[p].late
        /\ req[p].res = "OK"
        /\ IsDone(q) /\ req[q].live /\ ~req[q].err /\ req[q].late
        /\ req[q].res = "OK"

\* C20: a login answered 200 returns an access credential with a session id
\* and a renewal credential, the session's entry is in the store when the
\* answer is sent, and a verify of the returned access credential at that
\* moment, with the store answering, returns valid = true.
C20_LoginReturnsIssuedPair ==
    lres.res = "OK"
    => ( /\ lres.tokens.at.sid # 0
         /\ lres.tokens.rt # 0
         /\ RedisGet(lres.tokens.at.sid) # NoEntry
         /\ RedisGet(lres.tokens.at.sid).rt = lres.tokens.rt
         /\ ValidateTokenResponse(lres.tokens.at, TRUE).valid )

C22_UserIdPreserved ==
    vres.resp.valid => SameNumber(vres.tok.uid, vres.resp.user_id)

====
